---- MODULE Spec2Model ----
(***************************************************************************)
(* The rigid-body accessors and mutators of RawRigidBodySet                *)
(* (src/src/dynamics/rigid_body.rs, the dim3 build), as a state machine    *)
(* over a store of rigid bodies keyed by handle.                           *)
(*                                                                         *)
(* Numbers are exact integers.  A rotation Unit<Quaternion> is kept as the *)
(* direction of its quaternion: the primitive integer quaternion (the gcd  *)
(* of the absolute components is 1) on the same ray, so that q / |q| is    *)
(* "divide by the gcd" and a quaternion is unit iff it is primitive.       *)
(***************************************************************************)
EXTENDS Integers, Sequences, FiniteSets, TLC

VARIABLES
    bodies,   \* the body set: handle -> rigid body, for the live handles
    pre,      \* the body set as it was when the last call was made
    last,     \* the last call: operation, arguments, returned value, engine calls
    nops      \* number of calls made so far

vars == <<bodies, pre, last, nops>>

\* Number of calls a behaviour makes.
MaxOps == 2

----------------------------------------------------------------------------
\* Vectors (na::Vector3) and quaternions (na::Quaternion).

Vector3(x, y, z) == <<x, y, z>>

ZeroVector == Vector3(0, 0, 0)

VAdd(a, b) == <<a[1] + b[1], a[2] + b[2], a[3] + b[3]>>

VSub(a, b) == <<a[1] - b[1], a[2] - b[2], a[3] - b[3]>>

VScale(a, k) == <<a[1] * k, a[2] * k, a[3] * k>>

Cross(a, b) ==
    <<a[2] * b[3] - a[3] * b[2], a[3] * b[1] - a[1] * b[3], a[1] * b[2] - a[2] * b[1]>>

\* na::Quaternion::new(w, i, j, k): the scalar part comes first.
Quaternion(w, i, j, k) == [w |-> w, i |-> i, j |-> j, k |-> k]

Abs(n) == IF n < 0 THEN -n ELSE n

RECURSIVE Gcd(_, _)
Gcd(a, b) == IF b = 0 THEN a ELSE Gcd(b, a % b)

norm_squared(q) == q.w * q.w + q.i * q.i + q.j * q.j + q.k * q.k

\* The common scale of q's components: q = QScale(q) * (a primitive quaternion).
QScale(q) == Gcd(Gcd(Abs(q.w), Abs(q.i)), Gcd(Abs(q.j), Abs(q.k)))

QDiv(q, n) == [w |-> q.w \div n, i |-> q.i \div n, j |-> q.j \div n, k |-> q.k \div n]

\* q / |q|, for a non-zero q.
normalize(q) == QDiv(q, QScale(q))

IsUnit(q) == QScale(q) = 1

None == [some |-> FALSE, value |-> Quaternion(0, 0, 0, 0)]

Some(v) == [some |-> TRUE, value |-> v]

\* na::Unit::try_new(q, min_norm): the normalized q when its squared norm is above
\* min_norm squared, None otherwise.
try_new(q, min_norm) ==
    IF norm_squared(q) > min_norm * min_norm THEN Some(normalize(q)) ELSE None

\* Hamilton product.
QMul(a, b) ==
    [w |-> a.w * b.w - a.i * b.i - a.j * b.j - a.k * b.k,
     i |-> a.w * b.i + a.i * b.w + a.j * b.k - a.k * b.j,
     j |-> a.w * b.j - a.i * b.k + a.j * b.w + a.k * b.i,
     k |-> a.w * b.k + a.i * b.j - a.j * b.i + a.k * b.w]

IdentityRotation == Quaternion(1, 0, 0, 0)

Isometry(t, r) == [translation |-> t, rotation |-> r]

IdentityPose == Isometry(ZeroVector, IdentityRotation)

----------------------------------------------------------------------------
\* Inputs of the calls.

\* Vector arguments: positions, forces, impulses, torques, points.
VecInputs == {Vector3(1, 0, 0), Vector3(0, 2, 0)}

\* Quaternion arguments <<x, y, z, w>>: the zero quaternion, unit and non-unit ones.
QuatInputs == {<<0, 0, 0, 0>>, <<0, 0, 0, 1>>, <<0, 0, 0, 2>>, <<1, 0, 0, 0>>, <<2, 0, 0, -2>>}

\* The bodies of the store, by handle; the next handle is the handle of no body.
BodyStatusOf == <<"Dynamic", "Kinematic", "Static">>

LiveHandles == 0 .. (Len(BodyStatusOf) - 1)

Handles == 0 .. Len(BodyStatusOf)

\* Mass properties of a body: inverse mass and (isotropic) inverse angular inertia.
DefaultMassProperties == [inv_mass |-> 2, inv_principal_inertia |-> 3]

----------------------------------------------------------------------------
\* The wrapped engine's rigid body (rapier's RigidBody), as the store's data
\* model and operations describe it.

NewBody(status, sleeping) ==
    [body_status |-> status,
     position |-> IdentityPose,
     predicted_position |-> IdentityPose,
     linvel |-> ZeroVector,
     angvel |-> ZeroVector,
     force |-> ZeroVector,
     torque |-> ZeroVector,
     mass_properties |-> DefaultMassProperties,
     sleeping |-> sleeping,
     colliders |-> <<>>]

is_static(rb) == rb.body_status = "Static"

is_kinematic(rb) == rb.body_status = "Kinematic"

is_dynamic(rb) == rb.body_status = "Dynamic"

\* The mass 1 / inv_mass, as the fraction <<numerator, denominator>>; 0 for inv_mass 0.
mass(rb) ==
    IF rb.mass_properties.inv_mass = 0 THEN <<0, 1>> ELSE <<1, rb.mass_properties.inv_mass>>

predicted_position(rb) == rb.predicted_position

\* Clears the sleeping flag.
wake_up(rb) == [rb EXCEPT !.sleeping = FALSE]

\* Overwrites the pose directly.
set_position(rb, pos) == [rb EXCEPT !.position = pos]

\* Overwrites the predicted pose of a kinematic body; nothing for the others.
set_next_kinematic_position(rb, pos) ==
    IF is_kinematic(rb) THEN [rb EXCEPT !.predicted_position = pos] ELSE rb

\* Adds to the force accumulator; nothing on a static body.
apply_force(rb, f) ==
    IF is_static(rb) THEN rb ELSE [rb EXCEPT !.force = VAdd(@, f)]

\* Changes the linear velocity by impulse * inverseMass; nothing on a static body.
apply_impulse(rb, impulse) ==
    IF is_static(rb) THEN rb
    ELSE [rb EXCEPT !.linvel = VAdd(@, VScale(impulse, rb.mass_properties.inv_mass))]

\* Adds to the torque accumulator; nothing on a static body.
apply_torque(rb, t) ==
    IF is_static(rb) THEN rb ELSE [rb EXCEPT !.torque = VAdd(@, t)]

\* Changes the angular velocity by inverse inertia * torque impulse.
apply_torque_impulse(rb, t) ==
    IF is_static(rb) THEN rb
    ELSE [rb EXCEPT !.angvel = VAdd(@, VScale(t, rb.mass_properties.inv_principal_inertia))]

\* The world-space centre of mass: no collider moves it off the body's origin.
world_com(rb) == rb.position.translation

\* A force at a point: the force at the centre of mass plus the torque of its lever arm.
apply_force_at_point(rb, f, point) ==
    apply_torque(apply_force(rb, f), Cross(VSub(point, world_com(rb)), f))

\* An impulse at a point: the impulse at the centre of mass plus its angular part.
apply_impulse_at_point(rb, impulse, point) ==
    apply_torque_impulse(apply_impulse(rb, impulse),
                         Cross(VSub(point, world_com(rb)), impulse))

----------------------------------------------------------------------------
\* Handle lookup (RawRigidBodySet::map, map_mut, map_mut_wake).

NotFound == [tag |-> "NotFound"]

Ok(v) == [tag |-> "Ok", value |-> v]

\* The bodies a closure may be run on: those of the store, as they are or woken.
Rbs == {bodies[h] : h \in DOMAIN bodies} \cup {wake_up(bodies[h]) : h \in DOMAIN bodies}

\* A read: the closure's value on the body of the handle, or NotFound.  A closure
\* is a function on Rbs.
map(handle, f) ==
    IF handle \in DOMAIN bodies THEN Ok(f[bodies[handle]]) ELSE NotFound

\* A write: wakes the body when asked to, then runs the closure on it.  The
\* result is the new store and the engine calls made, in order ("f" is the
\* closure).
map_mut_wake(handle, wakeUp, f) ==
    [bodies |-> [bodies EXCEPT ![handle] = f[IF wakeUp THEN wake_up(@) ELSE @]],
     calls |-> (IF wakeUp THEN <<"wake_up">> ELSE <<>>) \o <<"f">>]

map_mut(handle, f) == map_mut_wake(handle, FALSE, f)

\* A write that does nothing.
Skipped == [bodies |-> bodies, calls |-> <<>>]

----------------------------------------------------------------------------
\* Calls from the host.

NoArgs == [vec |-> ZeroVector, point |-> ZeroVector, quat |-> <<0, 0, 0, 0>>, wakeUp |-> FALSE]

\* The value a mutator returns.
Returned == Ok(0)

\* A call from the host: the store becomes `out.bodies` and `ret` is returned.
Call(op, handle, args, ret, out) ==
    /\ nops < MaxOps
    /\ handle \in Handles
    /\ bodies' = out.bodies
    /\ pre' = bodies
    /\ last' = [op |-> op, handle |-> handle, args |-> args, ret |-> ret, calls |-> out.calls]
    /\ nops' = nops + 1

\* A call of a read accessor: the store is untouched.
Read(op, handle, ret) == Call(op, handle, NoArgs, ret, Skipped)

\* A call of a mutator that looks the handle up, made on a live body.
Mutate(op, handle, args, out) ==
    /\ handle \in DOMAIN bodies
    /\ Call(op, handle, args, Returned, out)

RawVector(v) == v

RawRotation(q) == q

Translation(handle) == map(handle, [rb \in Rbs |-> RawVector(rb.position.translation)])

Rotation(handle) == map(handle, [rb \in Rbs |-> RawRotation(rb.position.rotation)])

PredictedTranslation(handle) ==
    map(handle, [rb \in Rbs |-> RawVector(predicted_position(rb).translation)])

PredictedRotation(handle) ==
    map(handle, [rb \in Rbs |-> RawRotation(predicted_position(rb).rotation)])

Linvel(handle) == map(handle, [rb \in Rbs |-> RawVector(rb.linvel)])

rbTranslation(handle) == Read("rbTranslation", handle, Translation(handle))

rbRotation(handle) == Read("rbRotation", handle, Rotation(handle))

rbPredictedTranslation(handle) ==
    Read("rbPredictedTranslation", handle, PredictedTranslation(handle))

rbPredictedRotation(handle) ==
    Read("rbPredictedRotation", handle, PredictedRotation(handle))

\* Mutant: an unknown handle reads as a zero velocity.
rbLinvel_Defaulted(handle) ==
    Read("rbLinvel", handle,
         IF handle \in DOMAIN bodies THEN Linvel(handle) ELSE Ok(RawVector(ZeroVector)))

rbLinvel(handle) == Read("rbLinvel", handle, Linvel(handle))

rbMass(handle) == Read("rbMass", handle, map(handle, [rb \in Rbs |-> mass(rb)]))

rbNumColliders(handle) ==
    Read("rbNumColliders", handle, map(handle, [rb \in Rbs |-> Len(rb.colliders)]))

rbBodyType(handle) == Read("rbBodyType", handle, map(handle, [rb \in Rbs |-> rb.body_status]))

rbIsStatic(handle) == Read("rbIsStatic", handle, map(handle, [rb \in Rbs |-> is_static(rb)]))

rbIsKinematic(handle) ==
    Read("rbIsKinematic", handle, map(handle, [rb \in Rbs |-> is_kinematic(rb)]))

rbIsDynamic(handle) == Read("rbIsDynamic", handle, map(handle, [rb \in Rbs |-> is_dynamic(rb)]))

Args(vec, point, quat, wakeUp) == [vec |-> vec, point |-> point, quat |-> quat, wakeUp |-> wakeUp]

\* Mutant: the pose is rebuilt from the translation alone, dropping the rotation.
rbSetTranslation_FreshPose(handle, x, y, z, wakeUp) ==
    Mutate("rbSetTranslation", handle, Args(<<x, y, z>>, ZeroVector, NoArgs.quat, wakeUp),
        map_mut_wake(handle, wakeUp,
            [rb \in Rbs |-> set_position(rb, Isometry(Vector3(x, y, z), IdentityRotation))]))

\* Mutant: the body is woken whatever wakeUp says.
rbSetTranslation_AlwaysWake(handle, x, y, z, wakeUp) ==
    Mutate("rbSetTranslation", handle, Args(<<x, y, z>>, ZeroVector, NoArgs.quat, wakeUp),
        map_mut_wake(handle, TRUE,
            [rb \in Rbs |->
                set_position(rb, [rb.position EXCEPT !.translation = Vector3(x, y, z)])]))

rbSetTranslation(handle, x, y, z, wakeUp) ==
    Mutate("rbSetTranslation", handle, Args(<<x, y, z>>, ZeroVector, NoArgs.quat, wakeUp),
        map_mut_wake(handle, wakeUp,
            [rb \in Rbs |->
                set_position(rb, [rb.position EXCEPT !.translation = Vector3(x, y, z)])]))

\* Mutant: the body is looked up and woken before the quaternion is tested.
rbSetRotation_WakeFirst(handle, x, y, z, w, wakeUp) ==
    LET q == try_new(Quaternion(w, x, y, z), 0)
    IN  Mutate("rbSetRotation", handle, Args(ZeroVector, ZeroVector, <<x, y, z, w>>, wakeUp),
            map_mut_wake(handle, wakeUp,
                [rb \in Rbs |->
                    IF q.some THEN set_position(rb, [rb.position EXCEPT !.rotation = q.value])
                    ELSE rb]))

\* Mutant: the quaternion is stored as given (Unit::new_unchecked) when it is not zero.
rbSetRotation_Unchecked(handle, x, y, z, w, wakeUp) ==
    LET q == Quaternion(w, x, y, z)
        args == Args(ZeroVector, ZeroVector, <<x, y, z, w>>, wakeUp)
    IN  IF norm_squared(q) > 0
        THEN Mutate("rbSetRotation", handle, args,
                map_mut_wake(handle, wakeUp,
                    [rb \in Rbs |-> set_position(rb, [rb.position EXCEPT !.rotation = q])]))
        ELSE Call("rbSetRotation", handle, args, Returned, Skipped)

rbSetRotation(handle, x, y, z, w, wakeUp) ==
    LET q == try_new(Quaternion(w, x, y, z), 0)
        args == Args(ZeroVector, ZeroVector, <<x, y, z, w>>, wakeUp)
    IN  IF q.some
        THEN Mutate("rbSetRotation", handle, args,
                map_mut_wake(handle, wakeUp,
                    [rb \in Rbs |->
                        set_position(rb, [rb.position EXCEPT !.rotation = q.value])]))
        ELSE Call("rbSetRotation", handle, args, Returned, Skipped)

\* Mutant: the target is written with set_position.
rbSetNextKinematicTranslation_SetPosition(handle, x, y, z) ==
    Mutate("rbSetNextKinematicTranslation", handle,
        Args(<<x, y, z>>, ZeroVector, NoArgs.quat, FALSE),
        map_mut(handle,
            [rb \in Rbs |->
                set_position(rb,
                    [predicted_position(rb) EXCEPT !.translation = Vector3(x, y, z)])]))

rbSetNextKinematicTranslation(handle, x, y, z) ==
    Mutate("rbSetNextKinematicTranslation", handle,
        Args(<<x, y, z>>, ZeroVector, NoArgs.quat, FALSE),
        map_mut(handle,
            [rb \in Rbs |->
                set_next_kinematic_position(rb,
                    [predicted_position(rb) EXCEPT !.translation = Vector3(x, y, z)])]))

rbSetNextKinematicRotation(handle, x, y, z, w) ==
    LET q == try_new(Quaternion(w, x, y, z), 0)
        args == Args(ZeroVector, ZeroVector, <<x, y, z, w>>, FALSE)
    IN  IF q.some
        THEN Mutate("rbSetNextKinematicRotation", handle, args,
                map_mut(handle,
                    [rb \in Rbs |->
                        set_next_kinematic_position(rb,
                            [predicted_position(rb) EXCEPT !.rotation = q.value])]))
        ELSE Call("rbSetNextKinematicRotation", handle, args, Returned, Skipped)

rbWakeUp(handle) ==
    Mutate("rbWakeUp", handle, NoArgs, map_mut(handle, [rb \in Rbs |-> wake_up(rb)]))

\* Mutant: wakeUp is not passed on.
rbApplyForce_NoWake(handle, force, wakeUp) ==
    Mutate("rbApplyForce", handle, Args(force, ZeroVector, NoArgs.quat, wakeUp),
        map_mut(handle, [rb \in Rbs |-> apply_force(rb, force)]))

rbApplyForce(handle, force, wakeUp) ==
    Mutate("rbApplyForce", handle, Args(force, ZeroVector, NoArgs.quat, wakeUp),
        map_mut_wake(handle, wakeUp, [rb \in Rbs |-> apply_force(rb, force)]))

\* Mutant: the impulse is applied as a force.
rbApplyImpulse_AsForce(handle, impulse, wakeUp) ==
    Mutate("rbApplyImpulse", handle, Args(impulse, ZeroVector, NoArgs.quat, wakeUp),
        map_mut_wake(handle, wakeUp, [rb \in Rbs |-> apply_force(rb, impulse)]))

\* Mutant: the impulse is added to the velocity field directly, not through the engine.
rbApplyImpulse_RawField(handle, impulse, wakeUp) ==
    Mutate("rbApplyImpulse", handle, Args(impulse, ZeroVector, NoArgs.quat, wakeUp),
        map_mut_wake(handle, wakeUp,
            [rb \in Rbs |->
                [rb EXCEPT !.linvel = VAdd(@, VScale(impulse, rb.mass_properties.inv_mass))]]))

rbApplyImpulse(handle, impulse, wakeUp) ==
    Mutate("rbApplyImpulse", handle, Args(impulse, ZeroVector, NoArgs.quat, wakeUp),
        map_mut_wake(handle, wakeUp, [rb \in Rbs |-> apply_impulse(rb, impulse)]))

\* Mutant: wakeUp is not passed on.
rbApplyTorque_NoWake(handle, torque, wakeUp) ==
    Mutate("rbApplyTorque", handle, Args(torque, ZeroVector, NoArgs.quat, wakeUp),
        map_mut(handle, [rb \in Rbs |-> apply_torque(rb, torque)]))

rbApplyTorque(handle, torque, wakeUp) ==
    Mutate("rbApplyTorque", handle, Args(torque, ZeroVector, NoArgs.quat, wakeUp),
        map_mut_wake(handle, wakeUp, [rb \in Rbs |-> apply_torque(rb, torque)]))

rbApplyTorqueImpulse(handle, torque_impulse, wakeUp) ==
    Mutate("rbApplyTorqueImpulse", handle,
        Args(torque_impulse, ZeroVector, NoArgs.quat, wakeUp),
        map_mut_wake(handle, wakeUp,
            [rb \in Rbs |-> apply_torque_impulse(rb, torque_impulse)]))

rbApplyForceAtPoint(handle, force, point, wakeUp) ==
    Mutate("rbApplyForceAtPoint", handle, Args(force, point, NoArgs.quat, wakeUp),
        map_mut_wake(handle, wakeUp,
            [rb \in Rbs |-> apply_force_at_point(rb, force, point)]))

rbApplyImpulseAtPoint(handle, impulse, point, wakeUp) ==
    Mutate("rbApplyImpulseAtPoint", handle, Args(impulse, point, NoArgs.quat, wakeUp),
        map_mut_wake(handle, wakeUp,
            [rb \in Rbs |-> apply_impulse_at_point(rb, impulse, point)]))

----------------------------------------------------------------------------
\* The integrator (an external collaborator of the store): one pass, with a
\* time step of 1.

\* The rotation q advanced by the angular velocity w over one step, to first
\* order: the direction of q + (1/2) (0, w) q.
IntegrateRotation(q, w) ==
    LET dq == QMul(Quaternion(0, w[1], w[2], w[3]), q)
    IN  normalize([w |-> 2 * q.w + dq.w, i |-> 2 * q.i + dq.i,
                   j |-> 2 * q.j + dq.j, k |-> 2 * q.k + dq.k])

\* A pass over one body.  A sleeping body is excluded; a dynamic body that is
\* awake is advanced by its accumulated force and torque; a kinematic body moves
\* to its predicted position.  The accumulators are cleared.
Integrate(rb) ==
    LET linvel == VAdd(rb.linvel, VScale(rb.force, rb.mass_properties.inv_mass))
        angvel == VAdd(rb.angvel, VScale(rb.torque, rb.mass_properties.inv_principal_inertia))
        cleared == [rb EXCEPT !.force = ZeroVector, !.torque = ZeroVector]
    IN  IF rb.sleeping THEN cleared
        ELSE IF is_dynamic(rb)
        THEN [cleared EXCEPT
                !.linvel = linvel,
                !.angvel = angvel,
                !.position = Isometry(VAdd(rb.position.translation, linvel),
                                      IntegrateRotation(rb.position.rotation, angvel))]
        ELSE IF is_kinematic(rb) THEN [cleared EXCEPT !.position = rb.predicted_position]
        ELSE cleared

\* The dynamic bodies the pass may put to sleep: awake and at rest after it.
Idle(h) ==
    /\ is_dynamic(bodies[h])
    /\ ~bodies[h].sleeping
    /\ Integrate(bodies[h]).linvel = ZeroVector
    /\ Integrate(bodies[h]).angvel = ZeroVector

\* One integration pass; it puts the idle bodies of `asleep` to sleep.
Step(asleep) ==
    /\ nops < MaxOps
    /\ \A h \in asleep : Idle(h)
    /\ bodies' = [h \in DOMAIN bodies |->
                    IF h \in asleep THEN [Integrate(bodies[h]) EXCEPT !.sleeping = TRUE]
                    ELSE Integrate(bodies[h])]
    /\ pre' = bodies
    /\ last' = [op |-> "step", handle |-> Len(BodyStatusOf), args |-> NoArgs, ret |-> Returned,
                calls |-> <<>>]
    /\ nops' = nops + 1

----------------------------------------------------------------------------

\* The store holds one body of each status, at the identity pose and at rest; a
\* dynamic body may already have been put to sleep.
Init ==
    /\ \E asleep \in SUBSET {h \in LiveHandles : BodyStatusOf[h + 1] = "Dynamic"} :
          bodies = [h \in LiveHandles |-> NewBody(BodyStatusOf[h + 1], h \in asleep)]
    /\ pre = bodies
    /\ last = [op |-> "new", handle |-> Len(BodyStatusOf), args |-> NoArgs, ret |-> Returned,
               calls |-> <<>>]
    /\ nops = 0

Next ==
    \/ \E h \in Handles : rbTranslation(h)
    \/ \E h \in Handles : rbRotation(h)
    \/ \E h \in Handles : rbPredictedTranslation(h)
    \/ \E h \in Handles : rbPredictedRotation(h)
    \/ \E h \in Handles : rbLinvel(h)
    \/ \E h \in Handles : rbMass(h)
    \/ \E h \in Handles : rbNumColliders(h)
    \/ \E h \in Handles : rbBodyType(h)
    \/ \E h \in Handles : rbIsStatic(h)
    \/ \E h \in Handles : rbIsKinematic(h)
    \/ \E h \in Handles : rbIsDynamic(h)
    \/ \E h \in Handles, p \in VecInputs, wakeUp \in BOOLEAN :
          rbSetTranslation(h, p[1], p[2], p[3], wakeUp)
    \/ \E h \in Handles, q \in QuatInputs, wakeUp \in BOOLEAN :
          rbSetRotation(h, q[1], q[2], q[3], q[4], wakeUp)
    \/ \E h \in Handles, p \in VecInputs : rbSetNextKinematicTranslation(h, p[1], p[2], p[3])
    \/ \E h \in Handles, q \in QuatInputs :
          rbSetNextKinematicRotation(h, q[1], q[2], q[3], q[4])
    \/ \E h \in Handles : rbWakeUp(h)
    \/ \E h \in Handles, f \in VecInputs, wakeUp \in BOOLEAN : rbApplyForce(h, f, wakeUp)
    \/ \E h \in Handles, j \in VecInputs, wakeUp \in BOOLEAN : rbApplyImpulse(h, j, wakeUp)
    \/ \E h \in Handles, t \in VecInputs, wakeUp \in BOOLEAN : rbApplyTorque(h, t, wakeUp)
    \/ \E h \in Handles, t \in VecInputs, wakeUp \in BOOLEAN :
          rbApplyTorqueImpulse(h, t, wakeUp)
    \/ \E h \in Handles, f \in VecInputs, pt \in VecInputs, wakeUp \in BOOLEAN :
          rbApplyForceAtPoint(h, f, pt, wakeUp)
    \/ \E h \in Handles, j \in VecInputs, pt \in VecInputs, wakeUp \in BOOLEAN :
          rbApplyImpulseAtPoint(h, j, pt, wakeUp)
    \/ \E asleep \in SUBSET DOMAIN bodies : Step(asleep)

Spec == Init /\ [][Next]_vars

----------------------------------------------------------------------------
\* Properties.

ZeroQuat == <<0, 0, 0, 0>>

\* The unit quaternion a non-zero argument <<x, y, z, w>> stands for.
UnitOf(q) == normalize(Quaternion(q[4], q[1], q[2], q[3]))

ReadOps ==
    {"rbTranslation", "rbRotation", "rbPredictedTranslation", "rbPredictedRotation",
     "rbLinvel", "rbMass", "rbNumColliders", "rbBodyType", "rbIsStatic", "rbIsKinematic",
     "rbIsDynamic"}

ApplyOps ==
    {"rbApplyForce", "rbApplyImpulse", "rbApplyTorque", "rbApplyTorqueImpulse",
     "rbApplyForceAtPoint", "rbApplyImpulseAtPoint"}

WakingOps == {"rbSetTranslation", "rbSetRotation"} \cup ApplyOps

\* C1: after rbSetTranslation(h, p, wakeUp), whatever wakeUp and the sleep state
\* of h were, rbTranslation(h) returns p and rbRotation(h) is what it was.
C1_SetTranslationRoundTrip ==
    last.op = "rbSetTranslation" =>
        /\ Translation(last.handle) = Ok(last.args.vec)
        /\ Rotation(last.handle) = Ok(pre[last.handle].position.rotation)

C1_Witness ==
    /\ last.op = "rbSetTranslation"
    /\ pre[last.handle].sleeping
    /\ ~last.args.wakeUp
    /\ pre[last.handle].position.rotation # IdentityRotation
    /\ pre[last.handle].position.translation # last.args.vec

\* C2: rbSetRotation and rbSetNextKinematicRotation with the zero quaternion
\* return normally and leave the whole store as it was, for either wakeUp.
C2_ZeroQuaternionIgnored ==
    (last.op \in {"rbSetRotation", "rbSetNextKinematicRotation"} /\ last.args.quat = ZeroQuat)
        => (last.ret.tag = "Ok" /\ bodies = pre)

C2_Witness ==
    /\ last.op = "rbSetRotation"
    /\ last.args.quat = ZeroQuat
    /\ last.args.wakeUp
    /\ last.handle \in DOMAIN pre
    /\ pre[last.handle].sleeping
    /\ pre[last.handle].position.rotation # IdentityRotation

\* What C3 asks of a call that wakes: the body is awake after it, and the wake
\* came before the mutation, if one was applied.
WokenFirst ==
    /\ ~bodies[last.handle].sleeping
    /\ last.calls # <<>> => last.calls = <<"wake_up", "f">>

\* rbWakeUp leaves the body awake, and changes nothing when it already was.
WakeUpIdempotent ==
    last.op = "rbWakeUp" =>
        /\ ~bodies[last.handle].sleeping
        /\ ~pre[last.handle].sleeping => bodies = pre

\* C3 as stated: after rbWakeUp(h) and after every rbSetTranslation,
\* rbSetRotation and rbApply* call on h with wakeUp = true, h is awake, the wake
\* having come before the mutation; rbWakeUp on an awake body changes nothing.
C3_Original ==
    /\ (last.op \in WakingOps /\ last.args.wakeUp /\ last.handle \in DOMAIN pre) => WokenFirst
    /\ WakeUpIdempotent

\* C3, amended: the same, except that rbSetRotation with the zero quaternion
\* wakes nothing; every other such call wakes the body and then mutates it.
C3_WakeOnMutate ==
    /\ (/\ last.op \in WakingOps
        /\ last.args.wakeUp
        /\ ~(last.op = "rbSetRotation" /\ last.args.quat = ZeroQuat))
          => (WokenFirst /\ last.calls # <<>>)
    /\ WakeUpIdempotent

C3_Witness ==
    /\ last.op = "rbApplyTorque"
    /\ last.args.wakeUp
    /\ pre[last.handle].sleeping
    /\ ~bodies[last.handle].sleeping

\* C4: on a sleeping body, rbSetTranslation(h, p, false) and rbSetRotation(h, q,
\* false) with q not zero overwrite the pose and leave h sleeping; a sleeping
\* body is woken only by rbWakeUp on it or by a call on it with wakeUp = true.
C4_SleepingPoseWrite ==
    /\ (last.op = "rbSetTranslation" /\ ~last.args.wakeUp /\ pre[last.handle].sleeping)
          => (Translation(last.handle) = Ok(last.args.vec) /\ bodies[last.handle].sleeping)
    /\ (/\ last.op = "rbSetRotation"
        /\ ~last.args.wakeUp
        /\ last.args.quat # ZeroQuat
        /\ pre[last.handle].sleeping)
          => (/\ Rotation(last.handle) = Ok(UnitOf(last.args.quat))
              /\ bodies[last.handle].sleeping)
    /\ \A b \in DOMAIN bodies :
          (pre[b].sleeping /\ ~bodies[b].sleeping)
              => /\ last.handle = b
                 /\ \/ last.op = "rbWakeUp"
                    \/ last.op \in WakingOps /\ last.args.wakeUp

C4_Witness ==
    /\ last.op = "rbSetRotation"
    /\ ~last.args.wakeUp
    /\ last.args.quat = <<2, 0, 0, -2>>
    /\ pre[last.handle].sleeping
    /\ pre[last.handle].position.translation # ZeroVector
    /\ bodies[last.handle].sleeping
    /\ bodies[last.handle].position.rotation # pre[last.handle].position.rotation

AtRest(rb) ==
    /\ rb.linvel = ZeroVector
    /\ rb.angvel = ZeroVector
    /\ rb.force = ZeroVector
    /\ rb.torque = ZeroVector

\* C5: a static body always has zero velocities and zero accumulators, and no
\* rbApply* call on a static body changes them.
C5_StaticAtRest ==
    /\ \A b \in DOMAIN bodies : is_static(bodies[b]) => AtRest(bodies[b])
    /\ (last.op \in ApplyOps /\ is_static(pre[last.handle]))
          => /\ bodies[last.handle].linvel = pre[last.handle].linvel
             /\ bodies[last.handle].angvel = pre[last.handle].angvel
             /\ bodies[last.handle].force = pre[last.handle].force
             /\ bodies[last.handle].torque = pre[last.handle].torque

C5_Witness ==
    /\ last.op = "rbApplyImpulse"
    /\ last.args.wakeUp
    /\ is_static(pre[last.handle])
    /\ pre[last.handle].position.translation # ZeroVector

\* C6: rbApplyForce(h, F, false) leaves a sleeping h sleeping, and an
\* integration pass leaves a sleeping body's pose as it was; rbApplyForce(h, F,
\* true) on a sleeping dynamic h leaves it awake with F accumulated, and an
\* integration pass moves an awake dynamic body by its accumulated force.
C6_ForceOnSleepingBody ==
    /\ (last.op = "rbApplyForce" /\ ~last.args.wakeUp /\ pre[last.handle].sleeping)
          => bodies[last.handle].sleeping
    /\ (/\ last.op = "rbApplyForce"
        /\ last.args.wakeUp
        /\ pre[last.handle].sleeping
        /\ is_dynamic(pre[last.handle]))
          => /\ ~bodies[last.handle].sleeping
             /\ bodies[last.handle].force = VAdd(pre[last.handle].force, last.args.vec)
    /\ last.op = "step" =>
          \A b \in DOMAIN bodies :
              /\ pre[b].sleeping =>
                    (bodies[b].sleeping /\ bodies[b].position = pre[b].position)
              /\ (is_dynamic(pre[b]) /\ ~pre[b].sleeping) =>
                    LET v == VAdd(pre[b].linvel,
                                  VScale(pre[b].force, pre[b].mass_properties.inv_mass))
                    IN  /\ bodies[b].linvel = v
                        /\ bodies[b].position.translation =
                              VAdd(pre[b].position.translation, v)

C6_Witness ==
    /\ last.op = "rbApplyForce"
    /\ last.args.wakeUp
    /\ pre[last.handle].sleeping
    /\ is_dynamic(pre[last.handle])
    /\ ~bodies[last.handle].sleeping
    /\ bodies[last.handle].force # pre[last.handle].force
    /\ Integrate(bodies[last.handle]).position # bodies[last.handle].position
    /\ Integrate(pre[last.handle]).position = pre[last.handle].position

\* C7: rbSetNextKinematicTranslation and rbSetNextKinematicRotation change no
\* body's sleeping flag or current position; on a kinematic h the first makes
\* rbPredictedTranslation(h) return v and leaves the predicted rotation, and the
\* second, with a non-zero quaternion, makes the predicted rotation that
\* quaternion's and leaves the predicted translation.
C7_NextKinematic ==
    /\ last.op \in {"rbSetNextKinematicTranslation", "rbSetNextKinematicRotation"} =>
          \A b \in DOMAIN bodies :
              /\ bodies[b].sleeping = pre[b].sleeping
              /\ bodies[b].position = pre[b].position
    /\ (last.op = "rbSetNextKinematicTranslation" /\ is_kinematic(pre[last.handle]))
          => /\ PredictedTranslation(last.handle) = Ok(last.args.vec)
             /\ PredictedRotation(last.handle) =
                   Ok(pre[last.handle].predicted_position.rotation)
    /\ (/\ last.op = "rbSetNextKinematicRotation"
        /\ last.args.quat # ZeroQuat
        /\ is_kinematic(pre[last.handle]))
          => /\ PredictedRotation(last.handle) = Ok(UnitOf(last.args.quat))
             /\ PredictedTranslation(last.handle) =
                   Ok(pre[last.handle].predicted_position.translation)

C7_Witness ==
    /\ last.op = "rbSetNextKinematicRotation"
    /\ last.args.quat = <<1, 0, 0, 0>>
    /\ is_kinematic(pre[last.handle])
    /\ pre[last.handle].predicted_position.translation # ZeroVector
    /\ pre[last.handle].predicted_position.rotation = IdentityRotation
    /\ bodies[last.handle].predicted_position # bodies[last.handle].position

C9_ImpulseVersusForce ==
    /\ (last.op = "rbApplyImpulse" /\ last.args.wakeUp /\ is_dynamic(pre[last.handle]))
          => /\ Linvel(last.handle) =
                   Ok(VAdd(pre[last.handle].linvel,
                           VScale(last.args.vec, pre[last.handle].mass_properties.inv_mass)))
             /\ bodies[last.handle].force = pre[last.handle].force
             /\ bodies[last.handle].position = pre[last.handle].position
    /\ (last.op = "rbApplyForce" /\ last.args.wakeUp /\ is_dynamic(pre[last.handle]))
          => /\ bodies[last.handle].force = VAdd(pre[last.handle].force, last.args.vec)
             /\ Linvel(last.handle) = Ok(pre[last.handle].linvel)
    /\ \A b \in DOMAIN bodies :
          bodies[b].linvel # pre[b].linvel
              => last.op \in {"step", "rbApplyImpulse", "rbApplyImpulseAtPoint"}

C9_Witness ==
    /\ last.op = "rbApplyImpulse"
    /\ last.args.wakeUp
    /\ is_dynamic(pre[last.handle])
    /\ pre[last.handle].force # ZeroVector
    /\ pre[last.handle].sleeping
    /\ bodies[last.handle].linvel = VScale(last.args.vec, 2)

\* C10: a read accessor called with a handle of no live body fails with
\* NotFound, a read of a live body returns a value, and no read changes the
\* store.
C10_ReadNotFound ==
    last.op \in ReadOps =>
        /\ bodies = pre
        /\ last.handle \notin DOMAIN pre => last.ret.tag = "NotFound"
        /\ last.handle \in DOMAIN pre => last.ret.tag = "Ok"

C10_Witness ==
    /\ last.op = "rbLinvel"
    /\ last.handle \notin DOMAIN bodies
    /\ last.ret.tag = "NotFound"
    /\ \E b \in DOMAIN bodies : bodies[b].linvel # ZeroVector

====
